---------------------------- MODULE Spec2Model ----------------------------
(***************************************************************************)
(* Model of the daily task tracker (express + mongoose).                   *)
(*                                                                         *)
(* Representation.                                                         *)
(*  - A calendar date string "YYYY-MM-DD" is represented by its day number *)
(*    (days since the epoch); string order and day-number order agree.     *)
(*  - A JS Date (an instant) is an integer number of minutes since the     *)
(*    epoch, UTC.  The process runs in a zone given by its offset from UTC *)
(*    in minutes (no daylight saving); the zone is fixed when the process  *)
(*    starts and is not chosen by the code.                                *)
(*  - A JS number that may have decimals (avgPoints) is an integer number  *)
(*    of thousandths.                                                      *)
(*  - A JS value of a request body is a record tagged with its type.       *)
(***************************************************************************)
EXTENDS Integers, Sequences, FiniteSets

VARIABLES
    store,      \* the Day collection, in insertion order
    clock,      \* the wall clock: minutes since the epoch, UTC
    zone,       \* the zone of the process: minutes east of UTC
    pc,         \* per handler: where the request it serves stands
    req,        \* per handler: the request it serves
    loc,        \* per handler: the locals of the request handler
    resp,       \* the response the step just taken sent, if any
    running,    \* the handler that occupies the event loop, or 0
    args,       \* arguments of a direct call of a helper
    ret         \* result of a direct call of a helper

vars == <<store, clock, zone, pc, req, loc, resp, running, args, ret>>

(***************************************************************************)
(* Program constants.                                                      *)
(***************************************************************************)
MinutesPerDay == 1440
KolkataOffset == 330
WeekLength == 7
AvgDivisor == 7
DataFrequencyLimit == 3

(***************************************************************************)
(* Bounds of the model.                                                    *)
(***************************************************************************)
MaxDate == 4
MaxDaysLen == 4

Max(a, b) == IF a >= b THEN a ELSE b

(***************************************************************************)
(* Dates.                                                                  *)
(***************************************************************************)
\* new Date("YYYY-MM-DD"): a date-only string is midnight UTC of that day.
ParseDate(s) == s * MinutesPerDay

\* date.toLocaleDateString("en-CA", { timeZone }) and, with offset the zone
\* of the process, date.toLocaleDateString("en-CA"): the calendar day of the
\* instant in that zone.
toLocaleDateString(t, offset) == (t + offset) \div MinutesPerDay

\* cursor.setDate(cursor.getDate() - 1): the same local time one day earlier.
setDatePrev(t) == t - MinutesPerDay

\* date.toDateString(): the human-readable calendar day of the instant in the
\* zone of the process.
toDateString(t, offset) == <<"DateString", (t + offset) \div MinutesPerDay>>

\* today(), called when the wall clock reads now.
today(now) == toLocaleDateString(now, KolkataOffset)

(***************************************************************************)
(* getCurrentStreak                                                        *)
(***************************************************************************)
RECURSIVE StreakLoop(_, _, _, _)
StreakLoop(dateSet, cursor, offset, streak) ==
    IF toLocaleDateString(cursor, offset) \in dateSet
    THEN StreakLoop(dateSet, setDatePrev(cursor), offset, streak + 1)
    ELSE streak

\* getCurrentStreak with the value today() returned made explicit.
CurrentStreakOn(days, todayStr, offset) ==
    StreakLoop({days[i].date : i \in DOMAIN days}, ParseDate(todayStr), offset, 0)

getCurrentStreak(days, now, offset) == CurrentStreakOn(days, today(now), offset)

(***************************************************************************)
(* getLongestStreak                                                        *)
(***************************************************************************)
\* Array.prototype.sort((a, b) => a - b) on instants: ascending.
RECURSIVE InsertAsc(_, _)
InsertAsc(sorted, x) ==
    IF sorted = <<>> THEN <<x>>
    ELSE IF x - Head(sorted) < 0 THEN <<x>> \o sorted
         ELSE <<Head(sorted)>> \o InsertAsc(Tail(sorted), x)

RECURSIVE SortAsc(_)
SortAsc(s) == IF s = <<>> THEN <<>> ELSE InsertAsc(SortAsc(Tail(s)), Head(s))

RECURSIVE LongestLoop(_, _, _, _)
LongestLoop(sorted, i, longest, current) ==
    IF i > Len(sorted) THEN longest
    ELSE IF sorted[i] - sorted[i - 1] = MinutesPerDay
         THEN LongestLoop(sorted, i + 1, Max(longest, current + 1), current + 1)
         ELSE LongestLoop(sorted, i + 1, longest, 1)

getLongestStreakUnsorted(days) ==
    IF Len(days) = 0 THEN 0
    ELSE LongestLoop([i \in DOMAIN days |-> ParseDate(days[i].date)], 2, 1, 1)

getLongestStreak(days) ==
    IF Len(days) = 0 THEN 0
    ELSE LongestLoop(SortAsc([i \in DOMAIN days |-> ParseDate(days[i].date)]), 2, 1, 1)

(***************************************************************************)
(* getLast7Dates                                                           *)
(***************************************************************************)
RECURSIVE Last7Loop(_, _, _, _)
Last7Loop(dates, cursor, offset, i) ==
    IF i < WeekLength
    THEN Last7Loop(Append(dates, toLocaleDateString(cursor, offset)),
                   setDatePrev(cursor), offset, i + 1)
    ELSE dates

\* getLast7Dates with the value today() returned made explicit.
Last7DatesOn(todayStr, offset) == Last7Loop(<<>>, ParseDate(todayStr), offset, 0)

getLast7Dates(now, offset) == Last7DatesOn(today(now), offset)

(***************************************************************************)
(* getWeeklySummary                                                        *)
(***************************************************************************)
\* new Map(days.map(d => [d.date, d.points])).get(date) || 0: a later entry
\* with the same key replaces an earlier one; a missing key gives undefined.
MapGetOrZero(days, date) ==
    LET hits == {i \in DOMAIN days : days[i].date = date}
    IN  IF hits = {} THEN 0
        ELSE days[CHOOSE i \in hits : \A j \in hits : j <= i].points

\* Number((totalPoints / 7).toFixed(2)), in thousandths.  totalPoints / 7 is
\* never halfway between two hundredths (200 * total is even, 7 * odd is odd).
ToFixed2(total, divisor) == ((200 * total + divisor) \div (2 * divisor)) * 10

\* The forEach over last7: acc is the four accumulators; bestDayDate is <<>>
\* for null and <<date>> otherwise.
RECURSIVE WeeklyLoop(_, _, _, _)
WeeklyLoop(last7, days, i, acc) ==
    IF i > Len(last7) THEN acc
    ELSE LET pts == MapGetOrZero(days, last7[i])
             better == pts > acc.bestDayPoints
         IN  WeeklyLoop(last7, days, i + 1,
                [completedDays |-> IF pts > 0 THEN acc.completedDays + 1
                                   ELSE acc.completedDays,
                 totalPoints   |-> acc.totalPoints + pts,
                 bestDayPoints |-> IF better THEN pts ELSE acc.bestDayPoints,
                 bestDayDate   |-> IF better THEN <<last7[i]>> ELSE acc.bestDayDate])

\* getWeeklySummary with the value today() returned made explicit.
WeeklySummaryOn(days, todayStr, offset) ==
    LET acc == WeeklyLoop(Last7DatesOn(todayStr, offset), days, 1,
                   [completedDays |-> 0, totalPoints |-> 0,
                    bestDayPoints |-> 0, bestDayDate |-> <<>>])
    IN  [completedDays |-> acc.completedDays,
         totalPoints   |-> acc.totalPoints,
         avgPoints     |-> ToFixed2(acc.totalPoints, AvgDivisor),
         bestDay       |-> IF acc.bestDayDate # <<>>
                           THEN toDateString(ParseDate(acc.bestDayDate[1]), offset)
                           ELSE <<"N/A">>]

getWeeklySummary(days, now, offset) == WeeklySummaryOn(days, today(now), offset)

(***************************************************************************)
(* getWeeklyMotivation: avg in thousandths                                 *)
(***************************************************************************)
getWeeklyMotivationStrict(avg) ==
    IF avg >= 4 * 1000 THEN "Strong week"
    ELSE IF avg > 2 * 1000 THEN "Steady progress"
    ELSE IF avg > 0 THEN "Even imperfect weeks"
    ELSE "A reset week"

getWeeklyMotivation(avg) ==
    IF avg >= 4 * 1000 THEN "Strong week"
    ELSE IF avg >= 2 * 1000 THEN "Steady progress"
    ELSE IF avg > 0 THEN "Even imperfect weeks"
    ELSE "A reset week"

(***************************************************************************)
(* getTaskFrequency                                                        *)
(*                                                                         *)
(* freq is a plain object ({}): reading a key it does not own falls back   *)
(* to Object.prototype.  An own property list is a sequence of             *)
(* [task, count] in insertion order (the model's task names are not        *)
(* integer-like, so Object.entries keeps that order).  A count is          *)
(* [num |-> TRUE, n |-> k] for the number k, or [num |-> FALSE, n |-> k]   *)
(* for the string made of a function's source text followed by k digits 1. *)
(***************************************************************************)
\* Names Object.prototype defines as functions.
InheritedKeys == {"constructor", "toString", "valueOf", "hasOwnProperty"}

Num(k) == [num |-> TRUE, n |-> k]
Str(k) == [num |-> FALSE, n |-> k]

OwnIndex(freq, task) == {i \in DOMAIN freq : freq[i].task = task}

\* (freq[task] || 0) + 1
Incremented(freq, task) ==
    LET own == OwnIndex(freq, task)
    IN  IF own # {}
        THEN LET c == freq[CHOOSE i \in own : TRUE].count
             IN  [num |-> c.num, n |-> c.n + 1]
        ELSE IF task \in InheritedKeys THEN Str(1)
        ELSE Num(1)

\* freq[task] = (freq[task] || 0) + 1
Tally(freq, task) ==
    LET own == OwnIndex(freq, task)
    IN  IF own # {}
        THEN [i \in DOMAIN freq |->
                IF i \in own THEN [task |-> task, count |-> Incremented(freq, task)]
                ELSE freq[i]]
        ELSE Append(freq, [task |-> task, count |-> Incremented(freq, task)])

RECURSIVE TallyTasks(_, _)
TallyTasks(freq, tasks) ==
    IF tasks = <<>> THEN freq
    ELSE TallyTasks(Tally(freq, Head(tasks)), Tail(tasks))

RECURSIVE TallyDays(_, _)
TallyDays(freq, days) ==
    IF days = <<>> THEN freq
    ELSE TallyDays(TallyTasks(freq, Head(days).completedTasks), Tail(days))

\* sort((a, b) => b[1] - a[1]) on numeric counts: stable, descending.
RECURSIVE InsertDesc(_, _)
InsertDesc(sorted, e) ==
    IF sorted = <<>> THEN <<e>>
    ELSE IF Head(sorted).count.n - e.count.n < 0 THEN <<e>> \o sorted
         ELSE <<Head(sorted)>> \o InsertDesc(Tail(sorted), e)

RECURSIVE SortDesc(_)
SortDesc(s) ==
    IF s = <<>> THEN <<>>
    ELSE InsertDesc(SortDesc(SubSeq(s, 1, Len(s) - 1)), s[Len(s)])

IndexPermutations(s) ==
    {p \in [DOMAIN s -> DOMAIN s] : \A i, j \in DOMAIN s : i # j => p[i] # p[j]}

\* The orders sort may leave the entries in.  With a count that is not a
\* number the comparator returns NaN, it is not a consistent comparator, and
\* the order is implementation-defined.
SortedEntries(freq) ==
    IF \A i \in DOMAIN freq : freq[i].count.num
    THEN {SortDesc(freq)}
    ELSE {[i \in DOMAIN freq |-> freq[p[i]]] : p \in IndexPermutations(freq)}

Slice(s, limit) == SubSeq(s, 1, IF limit < Len(s) THEN limit ELSE Len(s))

\* The results getTaskFrequency(days, limit) may return.
getTaskFrequency(days, limit) ==
    {Slice(s, limit) : s \in SortedEntries(TallyDays(<<>>, days))}

(***************************************************************************)
(* State.                                                                  *)
(***************************************************************************)
NumHandlers == 2
Handlers == 1..NumHandlers

\* The zones the process may run in: west of UTC, UTC, east of UTC.
ProcessZones == {-300, 0, 330}

SeqsUpTo(S, n) == UNION {[1..k -> S] : k \in 0..n}

DatesOf(days) == {days[i].date : i \in DOMAIN days}
DistinctDates(days) ==
    \A i, j \in DOMAIN days : i # j => days[i].date # days[j].date

Undefined == [t |-> "undefined"]
NoRequest == [route |-> "none", tasks |-> Undefined, note |-> Undefined]
NoSummary ==
    [completedDays |-> 0, totalPoints |-> 0, avgPoints |-> 0, bestDay |-> <<"N/A">>]
NoLocals ==
    [queryDate |-> 0, existing |-> FALSE, doc |-> <<>>, days |-> <<>>,
     weeklySummary |-> NoSummary, taskFrequency |-> <<>>, today |-> 0]
NoArgs == [fn |-> "none"]
NoRet == [fn |-> "none", val |-> 0]

ServerIdle ==
    /\ store = <<>>
    /\ pc = [h \in Handlers |-> "idle"]
    /\ req = [h \in Handlers |-> NoRequest]
    /\ loc = [h \in Handlers |-> NoLocals]
    /\ resp = [status |-> 0, send |-> "none", json |-> <<>>]
    /\ running = 0

serverVars == <<store, clock, zone, pc, req, loc, resp, running>>

(***************************************************************************)
(* Direct calls of getCurrentStreak and getLongestStreak.                  *)
(***************************************************************************)
ExampleDates == {1, 2, 3, 10}
StreakDates == (0..MaxDate) \cup ExampleDates
StreakRecord(d) ==
    [date |-> d, completedTasks |-> <<"A">>, points |-> 1, note |-> ""]

\* 05:30 and, the next calendar day, 01:30 in Asia/Kolkata.
StreakClocks == {ParseDate(MaxDate - 1), ParseDate(MaxDate - 1) + 20 * 60}

InitStreak ==
    /\ ServerIdle
    /\ clock \in StreakClocks
    /\ zone \in ProcessZones
    /\ args \in {[fn |-> "streak", days |-> s] :
                   s \in SeqsUpTo({StreakRecord(d) : d \in StreakDates}, MaxDaysLen)}
    /\ ret = NoRet

CallGetCurrentStreak ==
    /\ ret' = [fn |-> "getCurrentStreak",
               val |-> getCurrentStreak(args.days, clock, zone)]
    /\ UNCHANGED <<serverVars, args>>

CallGetLongestStreak ==
    /\ ret' = [fn |-> "getLongestStreak", val |-> getLongestStreak(args.days)]
    /\ UNCHANGED <<serverVars, args>>

NextStreak == CallGetCurrentStreak \/ CallGetLongestStreak

SpecStreak == InitStreak /\ [][NextStreak]_vars

\* C1: getCurrentStreak returns n when records exist for each of the n
\* consecutive calendar days ending at and including today and none exists for
\* the day before that run (0 when no record is dated today).
CurrentStreakIsRunEndingToday ==
    ret.fn = "getCurrentStreak" =>
        LET S == DatesOf(args.days)
            t == today(clock)
        IN  \A n \in 0..(Len(args.days) + 1) :
                ((\A k \in 0..(n - 1) : (t - k) \in S) /\ (t - n) \notin S)
                    => ret.val = n

\* The length of the longest run of consecutive calendar dates in S.
LongestRun(S) ==
    IF S = {} THEN 0
    ELSE CHOOSE n \in 1..Cardinality(S) :
            /\ \E d \in S : \A k \in 0..(n - 1) : (d + k) \in S
            /\ ~ \E d \in S : \A k \in 0..n : (d + k) \in S

\* C2: for records with pairwise distinct dates, in any order,
\* getLongestStreak returns the length of the longest run of consecutive
\* calendar dates: 0 for none, 1 for a single record, 3 for
\* {2024-01-01, 2024-01-02, 2024-01-03, 2024-01-10}.
LongestStreakIsLongestRun ==
    (ret.fn = "getLongestStreak" /\ DistinctDates(args.days)) =>
        /\ ret.val = LongestRun(DatesOf(args.days))
        /\ Len(args.days) = 0 => ret.val = 0
        /\ Len(args.days) = 1 => ret.val = 1
        /\ DatesOf(args.days) = ExampleDates => ret.val = 3

LongestStreakWitness ==
    /\ ret.fn = "getLongestStreak"
    /\ [i \in DOMAIN args.days |-> args.days[i].date] = <<10, 1, 3, 2>>
    /\ ret.val = 3

(***************************************************************************)
(* Direct calls of getWeeklyMotivation.                                    *)
(***************************************************************************)
MaxAvg == 5000

InitMotivation ==
    /\ ServerIdle
    /\ clock = 0
    /\ zone \in ProcessZones
    /\ args \in {[fn |-> "motivation", avg |-> a] : a \in 0..MaxAvg}
    /\ ret = NoRet

CallGetWeeklyMotivation ==
    /\ ret' = [fn |-> "getWeeklyMotivation", val |-> getWeeklyMotivation(args.avg)]
    /\ UNCHANGED <<serverVars, args>>

NextMotivation == CallGetWeeklyMotivation

SpecMotivation == InitMotivation /\ [][NextMotivation]_vars

\* C7: getWeeklyMotivation maps every non-negative average to exactly one of
\* four messages: strong week iff avg >= 4, steady progress iff 2 <= avg < 4,
\* imperfect weeks iff 0 < avg < 2, reset week iff avg = 0.
MotivationTiers ==
    ret.fn = "getWeeklyMotivation" =>
        /\ ret.val \in {"Strong week", "Steady progress",
                        "Even imperfect weeks", "A reset week"}
        /\ ret.val = "Strong week" <=> args.avg >= 4000
        /\ ret.val = "Steady progress" <=> (2000 <= args.avg /\ args.avg < 4000)
        /\ ret.val = "Even imperfect weeks" <=> (0 < args.avg /\ args.avg < 2000)
        /\ ret.val = "A reset week" <=> args.avg = 0
        /\ args.avg \in {2000, 3999} => ret.val = "Steady progress"

MotivationWitness ==
    /\ ret.fn = "getWeeklyMotivation"
    /\ args.avg = 2000
    /\ ret.val = "Steady progress"

(***************************************************************************)
(* Direct calls of getLast7Dates and getWeeklySummary.                     *)
(***************************************************************************)
MaxWeekRecords == 3
WeeklyDates == 0..(WeekLength + 2)
WeeklyPoints == {1, 2, 5}
WeeklyRecord(d, p) ==
    [date |-> d, completedTasks |-> <<"A">>, points |-> p, note |-> ""]

\* 05:30 and, the next calendar day, 01:30 in Asia/Kolkata.
WeeklyClocks == {ParseDate(WeekLength + 1), ParseDate(WeekLength + 1) + 20 * 60}

\* Lists of records with distinct dates, ascending by date.
WeeklyDayLists ==
    {s \in SeqsUpTo({WeeklyRecord(d, p) : d \in WeeklyDates, p \in WeeklyPoints},
                    MaxWeekRecords) :
        \A i \in DOMAIN s : i > 1 => s[i - 1].date < s[i].date}

InitWeekly ==
    /\ ServerIdle
    /\ clock \in WeeklyClocks
    /\ zone \in ProcessZones
    /\ args \in {[fn |-> "weekly", days |-> s] : s \in WeeklyDayLists}
    /\ ret = NoRet

CallGetLast7Dates ==
    /\ ret' = [fn |-> "getLast7Dates", val |-> getLast7Dates(clock, zone)]
    /\ UNCHANGED <<serverVars, args>>

CallGetWeeklySummary ==
    /\ ret' = [fn |-> "getWeeklySummary",
               val |-> getWeeklySummary(args.days, clock, zone)]
    /\ UNCHANGED <<serverVars, args>>

NextWeekly == CallGetLast7Dates \/ CallGetWeeklySummary

SpecWeekly == InitWeekly /\ [][NextWeekly]_vars

\* The points of the record dated date, 0 if there is none (distinct dates).
PointsOn(days, date) ==
    IF \E i \in DOMAIN days : days[i].date = date
    THEN days[CHOOSE i \in DOMAIN days : days[i].date = date].points
    ELSE 0

RECURSIVE SumPoints(_, _, _)
SumPoints(days, t, k) ==
    IF k < 0 THEN 0 ELSE PointsOn(days, t - k) + SumPoints(days, t, k - 1)

Abs(x) == IF x < 0 THEN -x ELSE x

InWindow(days, t) ==
    SelectSeq(days, LAMBDA d : d.date <= t /\ d.date >= t - 6)

\* C4: getWeeklySummary looks only at the 7 dates today..today-6, taking the
\* points of the record with that date or 0; completedDays is the number of
\* those dates with points > 0, totalPoints the sum, avgPoints the sum / 7
\* rounded to 2 decimals ({2,0,0,5,0,0,1} gives 3, 8, 1.14); records outside
\* the window never change the result.
WeeklySummaryOverLast7 ==
    (ret.fn = "getWeeklySummary" /\ DistinctDates(args.days)) =>
        LET t == today(clock)
            total == SumPoints(args.days, t, 6)
        IN  /\ ret.val.completedDays =
                   Cardinality({k \in 0..6 : PointsOn(args.days, t - k) > 0})
            /\ ret.val.totalPoints = total
            /\ ret.val.avgPoints % 10 = 0
            /\ 2 * Abs(7 * ret.val.avgPoints - 1000 * total) <= 70
            /\ [k \in 1..7 |-> PointsOn(args.days, t - (k - 1))]
                    = <<2, 0, 0, 5, 0, 0, 1>>
                  => /\ ret.val.completedDays = 3
                     /\ ret.val.totalPoints = 8
                     /\ ret.val.avgPoints = 1140
            /\ ret.val = getWeeklySummary(InWindow(args.days, t), clock, zone)

\* C5: bestDay is the date, among today..today-6, whose points are the highest
\* and > 0, the most recent of them on a tie, and "N/A" when none has points.
BestDayIsMostRecentHighest ==
    (ret.fn = "getWeeklySummary" /\ DistinctDates(args.days)) =>
        LET t == today(clock)
            P(k) == PointsOn(args.days, t - k)
        IN  IF \A k \in 0..6 : P(k) = 0
            THEN ret.val.bestDay = <<"N/A">>
            ELSE \E k \in 0..6 :
                    /\ P(k) > 0
                    /\ \A j \in 0..6 : P(j) <= P(k)
                    /\ \A j \in 0..(k - 1) : P(j) < P(k)
                    /\ ret.val.bestDay = <<"DateString", t - k>>

\* C6: getLast7Dates returns exactly 7 dates, the first is today and each next
\* one is the calendar day before, whatever zone the process runs in.
Last7DatesFromToday ==
    ret.fn = "getLast7Dates" =>
        /\ Len(ret.val) = 7
        /\ ret.val[1] = today(clock)
        /\ \A i \in 1..6 : ret.val[i + 1] = ret.val[i] - 1

(***************************************************************************)
(* Direct calls of getTaskFrequency.                                       *)
(***************************************************************************)
MaxFreqDays == 3
MaxTasksPerDay == 2
MaxLimit == 3
FreqTasks == {"A", "B", "constructor"}
FreqRecord(tasks) ==
    [date |-> 0, completedTasks |-> tasks, points |-> Len(tasks), note |-> ""]

InitFrequency ==
    /\ ServerIdle
    /\ clock = 0
    /\ zone = 0
    /\ args \in {[fn |-> "frequency", days |-> s, limit |-> l] :
                   s \in SeqsUpTo({FreqRecord(ts) :
                                     ts \in SeqsUpTo(FreqTasks, MaxTasksPerDay)},
                                  MaxFreqDays),
                   l \in 0..MaxLimit}
    /\ ret = NoRet

CallGetTaskFrequency ==
    /\ \E r \in getTaskFrequency(args.days, args.limit) :
          ret' = [fn |-> "getTaskFrequency", val |-> r]
    /\ UNCHANGED <<serverVars, args>>

NextFrequency == CallGetTaskFrequency

SpecFrequency == InitFrequency /\ [][NextFrequency]_vars

\* The number of occurrences of task in all the completedTasks lists.
Occurrences(days, task) ==
    Cardinality({<<i, j>> \in (DOMAIN days) \X (1..MaxTasksPerDay) :
                    j \in DOMAIN days[i].completedTasks
                    /\ days[i].completedTasks[j] = task})

TasksIn(days) ==
    {days[i].completedTasks[j] :
        <<i, j>> \in {<<a, b>> \in (DOMAIN days) \X (1..MaxTasksPerDay) :
                        b \in DOMAIN days[a].completedTasks}}

\* C8: getTaskFrequency returns at most limit entries, one per distinct task
\* name, each with the total number of occurrences of that name, in
\* non-increasing count order, and no omitted task has a greater count than a
\* returned one; [[A,B],[A],[B,B]] with limit 2 gives [{B,3},{A,2}].
TaskFrequencyRanksCounts ==
    ret.fn = "getTaskFrequency" =>
        LET r == ret.val
            all == TasksIn(args.days)
            returned == {r[i].task : i \in DOMAIN r}
        IN  /\ Len(r) <= args.limit
            /\ Len(r) = IF Cardinality(all) < args.limit
                        THEN Cardinality(all) ELSE args.limit
            /\ \A i, j \in DOMAIN r : i # j => r[i].task # r[j].task
            /\ \A i \in DOMAIN r :
                  /\ r[i].task \in all
                  /\ r[i].count = Num(Occurrences(args.days, r[i].task))
            /\ \A i \in DOMAIN r : i > 1 => r[i - 1].count.n >= r[i].count.n
            /\ \A task \in all \ returned : \A i \in DOMAIN r :
                  Occurrences(args.days, task) <= r[i].count.n
            /\ ([i \in DOMAIN args.days |-> args.days[i].completedTasks]
                    = << <<"A", "B">>, <<"A">>, <<"B", "B">> >>
                /\ args.limit = 2)
                  => r = << [task |-> "B", count |-> Num(3)],
                            [task |-> "A", count |-> Num(2)] >>

(***************************************************************************)
(* The server: POST /submit and GET /data over the Day collection.         *)
(*                                                                         *)
(* A handler runs from one await to the next without another handler       *)
(* running in between (one event loop); the database serves a query at     *)
(* some later time; the wall clock advances at any time, also inside a     *)
(* synchronous stretch of a handler.  The Task collection, POST /add-task, *)
(* GET / and GET /health never write the Day collection and are left out.  *)
(***************************************************************************)
MaxTicks == 4
MaxStore == 4

TickMinutes == MinutesPerDay \div 2
MaxClock == MaxTicks * TickMinutes

JsString(x) == [t |-> "string", s |-> x]
JsArray(x) == [t |-> "array", a |-> x]

\* Request bodies of POST /submit: tasks is missing, one string (a urlencoded
\* form with one tasks field) or a list of strings; note is missing or a string.
SubmitBodies ==
    {[tasks |-> Undefined,               note |-> Undefined],
     [tasks |-> JsArray(<<>>),           note |-> JsString("n")],
     [tasks |-> JsString("Run"),         note |-> JsString("n")],
     [tasks |-> JsArray(<<"A", "B">>),   note |-> Undefined]}

Truthy(v) == v.t = "array" \/ (v.t = "string" /\ v.s # "")
\* v || d
OrElse(v, d) == IF Truthy(v) THEN v ELSE d
\* v.length of a string or an array
JsLength(v) == IF v.t = "array" THEN Len(v.a) ELSE Len(v.s)

\* mongoose casts a value given for a [String] path: an array is kept, any
\* other value becomes the array holding it.
CastStringArray(v) == IF v.t = "array" THEN v.a ELSE <<v.s>>

\* Day.create(doc): the document as the schema stores it.
CastDay(doc) ==
    [date           |-> doc.date,
     completedTasks |-> CastStringArray(doc.completedTasks),
     points         |-> doc.points,
     note           |-> doc.note.s]

\* Day.find().sort({ date: 1 }): the records ascending by date; the order of
\* records with the same date is not specified.
SortedByDate(coll) ==
    {[i \in DOMAIN coll |-> coll[p[i]]] : p \in
        {q \in IndexPermutations(coll) :
            \A i \in DOMAIN coll : i > 1 => coll[q[i - 1]].date <= coll[q[i]].date}}

Send(status, text) == [status |-> status, send |-> text, json |-> <<>>]
NoSend == Send(0, "none")

Init ==
    /\ store = <<>>
    /\ clock = 0
    /\ zone \in ProcessZones
    /\ pc = [h \in Handlers |-> "idle"]
    /\ req = [h \in Handlers |-> NoRequest]
    /\ loc = [h \in Handlers |-> NoLocals]
    /\ resp = NoSend
    /\ running = 0
    /\ args = NoArgs
    /\ ret = NoRet

Tick ==
    /\ clock < MaxClock
    /\ clock' = clock + TickMinutes
    /\ resp' = NoSend
    /\ UNCHANGED <<store, zone, pc, req, loc, running, args, ret>>

\* POST /submit arrives: Day.findOne({ date: today() }) is issued.
SubmitStart(h) ==
    /\ pc[h] = "idle" /\ running = 0
    /\ \E body \in SubmitBodies :
          req' = [req EXCEPT ![h] =
                     [route |-> "submit", tasks |-> body.tasks, note |-> body.note]]
    /\ loc' = [loc EXCEPT ![h] = [NoLocals EXCEPT !.queryDate = today(clock)]]
    /\ pc' = [pc EXCEPT ![h] = "findOne"]
    /\ resp' = NoSend
    /\ UNCHANGED <<store, clock, zone, running, args, ret>>

\* The database serves the findOne.
DbFindOne(h) ==
    /\ pc[h] = "findOne"
    /\ loc' = [loc EXCEPT ![h].existing =
                  \E i \in DOMAIN store : store[i].date = loc[h].queryDate]
    /\ pc' = [pc EXCEPT ![h] = "gotExisting"]
    /\ resp' = NoSend
    /\ UNCHANGED <<store, clock, zone, req, running, args, ret>>

\* SubmitResume with the two checks in the other order.
SubmitResumeTasksFirst(h) ==
    /\ pc[h] = "gotExisting" /\ running = 0
    /\ LET completed == OrElse(req[h].tasks, JsArray(<<>>))
       IN  IF JsLength(completed) = 0
           THEN /\ resp' = Send(400, "NO_TASKS_SELECTED")
                /\ pc' = [pc EXCEPT ![h] = "idle"]
                /\ loc' = [loc EXCEPT ![h] = NoLocals]
                /\ req' = [req EXCEPT ![h] = NoRequest]
           ELSE IF loc[h].existing
           THEN /\ resp' = Send(200, "ALREADY_DONE")
                /\ pc' = [pc EXCEPT ![h] = "idle"]
                /\ loc' = [loc EXCEPT ![h] = NoLocals]
                /\ req' = [req EXCEPT ![h] = NoRequest]
           ELSE /\ loc' = [loc EXCEPT ![h].doc =
                              [date           |-> today(clock),
                               completedTasks |-> completed,
                               points         |-> JsLength(completed),
                               note           |-> OrElse(req[h].note, JsString(""))]]
                /\ pc' = [pc EXCEPT ![h] = "create"]
                /\ resp' = NoSend
                /\ req' = req
    /\ UNCHANGED <<store, clock, zone, running, args, ret>>

\* POST /submit resumes after the findOne, up to Day.create.
SubmitResume(h) ==
    /\ pc[h] = "gotExisting" /\ running = 0
    /\ LET completed == OrElse(req[h].tasks, JsArray(<<>>))
       IN  IF loc[h].existing
           THEN /\ resp' = Send(200, "ALREADY_DONE")
                /\ pc' = [pc EXCEPT ![h] = "idle"]
                /\ loc' = [loc EXCEPT ![h] = NoLocals]
                /\ req' = [req EXCEPT ![h] = NoRequest]
           ELSE IF JsLength(completed) = 0
           THEN /\ resp' = Send(400, "NO_TASKS_SELECTED")
                /\ pc' = [pc EXCEPT ![h] = "idle"]
                /\ loc' = [loc EXCEPT ![h] = NoLocals]
                /\ req' = [req EXCEPT ![h] = NoRequest]
           ELSE /\ loc' = [loc EXCEPT ![h].doc =
                              [date           |-> today(clock),
                               completedTasks |-> completed,
                               points         |-> JsLength(completed),
                               note           |-> OrElse(req[h].note, JsString(""))]]
                /\ pc' = [pc EXCEPT ![h] = "create"]
                /\ resp' = NoSend
                /\ req' = req
    /\ UNCHANGED <<store, clock, zone, running, args, ret>>

\* The database serves the create.
DbCreate(h) ==
    /\ pc[h] = "create"
    /\ Len(store) < MaxStore
    /\ store' = Append(store, CastDay(loc[h].doc))
    /\ pc' = [pc EXCEPT ![h] = "created"]
    /\ resp' = NoSend
    /\ UNCHANGED <<clock, zone, req, loc, running, args, ret>>

\* POST /submit resumes after the create.
SubmitSend(h) ==
    /\ pc[h] = "created" /\ running = 0
    /\ resp' = Send(200, "OK")
    /\ pc' = [pc EXCEPT ![h] = "idle"]
    /\ loc' = [loc EXCEPT ![h] = NoLocals]
    /\ req' = [req EXCEPT ![h] = NoRequest]
    /\ UNCHANGED <<store, clock, zone, running, args, ret>>

\* GET /data arrives: Task.find() is awaited, then Day.find() is issued.
DataStart(h) ==
    /\ pc[h] = "idle" /\ running = 0
    /\ req' = [req EXCEPT ![h] = [NoRequest EXCEPT !.route = "data"]]
    /\ loc' = [loc EXCEPT ![h] = NoLocals]
    /\ pc' = [pc EXCEPT ![h] = "find"]
    /\ resp' = NoSend
    /\ UNCHANGED <<store, clock, zone, running, args, ret>>

\* The database serves Day.find().sort({ date: 1 }).
DbFindDays(h) ==
    /\ pc[h] = "find"
    /\ \E days \in SortedByDate(store) : loc' = [loc EXCEPT ![h].days = days]
    /\ pc' = [pc EXCEPT ![h] = "gotDays"]
    /\ resp' = NoSend
    /\ UNCHANGED <<store, clock, zone, req, running, args, ret>>

\* GET /data resumes: getWeeklySummary(days) and getTaskFrequency(days, 3).
DataSummary(h) ==
    /\ pc[h] = "gotDays" /\ running = 0
    /\ \E tf \in getTaskFrequency(loc[h].days, DataFrequencyLimit) :
          loc' = [loc EXCEPT ![h].weeklySummary =
                                 getWeeklySummary(loc[h].days, clock, zone),
                             ![h].taskFrequency = tf]
    /\ running' = h
    /\ pc' = [pc EXCEPT ![h] = "today"]
    /\ resp' = NoSend
    /\ UNCHANGED <<store, clock, zone, req, args, ret>>

\* GET /data goes on: the today field of the response.
DataToday(h) ==
    /\ pc[h] = "today" /\ running = h
    /\ loc' = [loc EXCEPT ![h].today = today(clock)]
    /\ pc' = [pc EXCEPT ![h] = "streaks"]
    /\ resp' = NoSend
    /\ UNCHANGED <<store, clock, zone, req, running, args, ret>>

\* GET /data goes on: the streaks and the motivation, and res.json.
DataRespond(h) ==
    /\ pc[h] = "streaks" /\ running = h
    /\ resp' =
          [status |-> 200, send |-> "json",
           json |-> [days             |-> loc[h].days,
                     today            |-> loc[h].today,
                     currentStreak    |-> getCurrentStreak(loc[h].days, clock, zone),
                     longestStreak    |-> getLongestStreak(loc[h].days),
                     weeklySummary    |-> loc[h].weeklySummary,
                     taskFrequency    |-> loc[h].taskFrequency,
                     weeklyMotivation |->
                         getWeeklyMotivation(loc[h].weeklySummary.avgPoints)]]
    /\ running' = 0
    /\ pc' = [pc EXCEPT ![h] = "idle"]
    /\ loc' = [loc EXCEPT ![h] = NoLocals]
    /\ req' = [req EXCEPT ![h] = NoRequest]
    /\ UNCHANGED <<store, clock, zone, args, ret>>

Next ==
    \/ Tick
    \/ \E h \in Handlers : SubmitStart(h)
    \/ \E h \in Handlers : DbFindOne(h)
    \/ \E h \in Handlers : SubmitResume(h)
    \/ \E h \in Handlers : DbCreate(h)
    \/ \E h \in Handlers : SubmitSend(h)
    \/ \E h \in Handlers : DataStart(h)
    \/ \E h \in Handlers : DbFindDays(h)
    \/ \E h \in Handlers : DataSummary(h)
    \/ \E h \in Handlers : DataToday(h)
    \/ \E h \in Handlers : DataRespond(h)

Spec == Init /\ [][Next]_vars

\* C3: at most one day record exists per distinct date value, after any
\* number of POST /submit requests handled in any interleaving.
OneRecordPerDate == DistinctDates(store)

\* C9: every day record POST /submit stores has points = length of
\* completedTasks, also when tasks is a single string.
PointsEqualTaskCount ==
    \A i \in DOMAIN store : store[i].points = Len(store[i].completedTasks)

\* C10: in every GET /data response, currentStreak, weeklySummary and
\* weeklyMotivation are computed against the date the response reports as
\* today and against the days list it returns.
ResponseUsesOneToday ==
    resp.send = "json" =>
        LET b == resp.json
            summary == WeeklySummaryOn(b.days, b.today, zone)
        IN  /\ b.currentStreak = CurrentStreakOn(b.days, b.today, zone)
            /\ b.weeklySummary = summary
            /\ b.weeklyMotivation = getWeeklyMotivation(summary.avgPoints)

(***************************************************************************)
(* Repeated direct calls of one helper with the same arguments, the wall   *)
(* clock advancing in between.  ret.prev is <<>> after the first call and  *)
(* <<v>> after a later one, v the result of the call before.  The task     *)
(* names drawn here are counted as numbers, so that the order sort leaves  *)
(* is the only one getTaskFrequency may return.                            *)
(***************************************************************************)
MaxRepeatDays == 2
RepeatDates == 0..1
RepeatAverages == {0, 1140, 2000, 4500}
RepeatRecord(d, tasks) ==
    [date |-> d, completedTasks |-> tasks, points |-> Len(tasks), note |-> ""]

InitRepeat ==
    /\ ServerIdle
    /\ clock = 0
    /\ zone \in ProcessZones
    /\ args \in {[fn |-> "repeat", days |-> s, avg |-> a, limit |-> DataFrequencyLimit] :
                   s \in SeqsUpTo({RepeatRecord(d, ts) :
                                     d \in RepeatDates,
                                     ts \in {<<"A">>, <<"B", "A">>}},
                                  MaxRepeatDays),
                   a \in RepeatAverages}
    /\ ret = [fn |-> "none", val |-> 0, prev |-> <<>>]

\* One more call of helper f, returning v.
Returned(f, v) ==
    /\ ret.fn \in {"none", f}
    /\ ret' = [fn |-> f, val |-> v,
               prev |-> IF ret.fn = f THEN <<ret.val>> ELSE <<>>]
    /\ UNCHANGED <<serverVars, args>>

RepeatGetCurrentStreak ==
    Returned("getCurrentStreak", getCurrentStreak(args.days, clock, zone))

RepeatGetLongestStreak ==
    Returned("getLongestStreak", getLongestStreak(args.days))

RepeatGetLast7Dates ==
    Returned("getLast7Dates", getLast7Dates(clock, zone))

RepeatGetWeeklySummary ==
    Returned("getWeeklySummary", getWeeklySummary(args.days, clock, zone))

RepeatGetWeeklyMotivation ==
    Returned("getWeeklyMotivation", getWeeklyMotivation(args.avg))

RepeatGetTaskFrequency ==
    \E r \in getTaskFrequency(args.days, args.limit) :
        Returned("getTaskFrequency", r)

NextRepeat ==
    \/ Tick
    \/ RepeatGetCurrentStreak
    \/ RepeatGetLongestStreak
    \/ RepeatGetLast7Dates
    \/ RepeatGetWeeklySummary
    \/ RepeatGetWeeklyMotivation
    \/ RepeatGetTaskFrequency

SpecRepeat == InitRepeat /\ [][NextRepeat]_vars

\* C11: calling getCurrentStreak, getLongestStreak, getLast7Dates,
\* getWeeklySummary, getWeeklyMotivation or getTaskFrequency twice with
\* identical arguments yields identical output, whatever happens between the
\* two calls.
RepeatedCallSameResult ==
    ret.prev # <<>> => ret.val = ret.prev[1]

(***************************************************************************)
(* Rejected submissions and the life of a day record.                      *)
(***************************************************************************)
NoTasksSelected(tasks) ==
    tasks \in {Undefined, JsString(""), JsArray(<<>>)}

\* C12: a POST /submit that is rejected leaves the stored day records
\* unchanged; when the existence check found a record dated today the answer
\* is ALREADY_DONE, whatever tasks the request selects; when it found none and
\* the task list is missing or empty the answer is 400 NO_TASKS_SELECTED; and
\* no step updates or deletes a record: the store only grows at its end.
RejectedSubmitKeepsStore ==
    [][ /\ resp'.send \in {"ALREADY_DONE", "NO_TASKS_SELECTED"} => store' = store
        /\ \A h \in Handlers :
              (pc[h] = "findOne" /\ pc'[h] = "gotExisting") =>
                  (loc'[h].existing <=>
                      \E i \in DOMAIN store : store[i].date = loc[h].queryDate)
        /\ \A h \in Handlers :
              (pc[h] = "gotExisting" /\ pc'[h] # "gotExisting") =>
                  /\ loc[h].existing => resp' = Send(200, "ALREADY_DONE")
                  /\ (~loc[h].existing /\ NoTasksSelected(req[h].tasks))
                        => resp' = Send(400, "NO_TASKS_SELECTED")
        /\ Len(store') >= Len(store)
        /\ \A i \in DOMAIN store : store'[i] = store[i]
      ]_vars

RejectedSubmitWitness ==
    /\ resp = Send(200, "ALREADY_DONE")
    /\ store # <<>>

\* C13: in every GET /data response, produced from any store state reachable
\* through POST /submit requests and the passage of days,
\* currentStreak <= longestStreak.
CurrentStreakAtMostLongest ==
    resp.send = "json" => resp.json.currentStreak <= resp.json.longestStreak

=============================================================================
